---- MODULE Spec2Model ----
(***************************************************************************)
(* Model of src/cpp_modules/src/http_server.cpp: the ThreadPool class, the *)
(* query-parameter parsing and validation helpers, the canonical request   *)
(* string, and the two Engine-backed HTTP handlers.                        *)
(*                                                                         *)
(* A std::string is a TLA+ string; CharAt(s, i) is its i-th character, as  *)
(* a string of length one.                                                 *)
(***************************************************************************)
EXTENDS Integers, Sequences, FiniteSets, TLC

\* ------------------------------------------------------------------ bounds
\* Largest value std::thread::hardware_concurrency() is taken to report.
MaxThreads == 2
\* Number of HTTP handler threads (each serves one request).
NumHandlers == 2
\* Longest generated candidate value of an integer parameter.
MaxLen == 2

\* ------------------------------------------------------- program constants
BoardLen == 200
DefaultLevel == 18
DefaultLines == 0
DefaultPiece == -1
DefaultPlayoutCount == 343
DefaultPlayoutLength == 3
DefaultPruningBreadth == 25
MinLevel == 18
MinPiece == -1
MaxPiece == 6
\* int is 32 bits wide: std::stoi throws std::out_of_range below INT_MIN and
\* above INT_MAX = -(INT_MIN + 1).
IntMin == (-2147483647) - 1

\* ------------------------------------------------------------------ strings
CharAt(s, i) == SubSeq(s, i, i)
RECURSIVE Rep(_, _)
Rep(c, n) ==
    IF n = 0 THEN ""
    ELSE LET half == Rep(c, n \div 2)
         IN IF n % 2 = 0 THEN half \o half ELSE half \o half \o c
DigitChars == "0123456789"
IsDigit(c) == \E i \in 1..10 : CharAt(DigitChars, i) = c
DigitVal(c) == (CHOOSE i \in 1..10 : CharAt(DigitChars, i) = c) - 1
\* isspace() in the "C" locale
IsSpace(c) == c \in {" ", "\t", "\n", "\r"}

\* ---------------------------------------------------------------- std::stoi
\* strtol's digit loop, accumulating the negated magnitude so that INT_MIN is
\* representable; stops at the first non-digit.  Result: the negated
\* magnitude, whether any digit was consumed, and whether the value left the
\* range.
RECURSIVE StoiDigits(_, _, _, _, _)
StoiDigits(s, i, acc, any, over) ==
    IF i > Len(s) \/ ~IsDigit(CharAt(s, i))
    THEN [neg |-> acc, any |-> any, over |-> over]
    ELSE LET d == DigitVal(CharAt(s, i))
             ovf == over \/ acc < -214748364 \/ (acc = -214748364 /\ d > 8)
         IN StoiDigits(s, i + 1, IF ovf THEN 0 ELSE acc * 10 - d, TRUE, ovf)

RECURSIVE SkipSpace(_, _)
SkipSpace(s, i) ==
    IF i <= Len(s) /\ IsSpace(CharAt(s, i)) THEN SkipSpace(s, i + 1) ELSE i

\* std::stoi(val): skips leading white space, takes an optional sign, then
\* the longest run of decimal digits; whatever follows is ignored (the pos
\* argument is not passed).  No digit: std::invalid_argument.  Outside int:
\* std::out_of_range.
stoi(s) ==
    LET i0 == SkipSpace(s, 1)
        hasSign == i0 <= Len(s) /\ CharAt(s, i0) \in {"+", "-"}
        minus == hasSign /\ CharAt(s, i0) = "-"
        r == StoiDigits(s, IF hasSign THEN i0 + 1 ELSE i0, 0, FALSE, FALSE)
    IN IF ~r.any
       THEN [ok |-> FALSE, type |-> "std::invalid_argument", what |-> "stoi"]
       ELSE IF r.over \/ (~minus /\ r.neg = IntMin)
       THEN [ok |-> FALSE, type |-> "std::out_of_range", what |-> "stoi"]
       ELSE [ok |-> TRUE, val |-> IF minus THEN r.neg ELSE -r.neg]

\* ----------------------------------------------------------- std::to_string
RECURSIVE NatToString(_)
NatToString(n) ==
    IF n < 10 THEN CharAt(DigitChars, n + 1)
    ELSE NatToString(n \div 10) \o CharAt(DigitChars, (n % 10) + 1)

to_string(n) == IF n < 0 THEN "-" \o NatToString(-n) ELSE NatToString(n)

\* ------------------------------------------------- query-string accessors
\* A request's url_params is a function from the names of the parameters it
\* carries to their values; url_params.get(key) is nullptr for any other key.
\* A std::optional default is the empty set (std::nullopt) or a singleton.
nullopt == {}
Some(v) == {v}
Thrown(type, what) == [ok |-> FALSE, type |-> type, what |-> what]
Returned(v) == [ok |-> TRUE, val |-> v]

getIntParam(req, key, defaultVal) ==
    IF key \notin DOMAIN req
    THEN IF defaultVal # nullopt
         THEN Returned(CHOOSE v \in defaultVal : TRUE)
         ELSE Thrown("std::runtime_error", "Missing required parameter: " \o key)
    ELSE stoi(req[key])

getStringParam(req, key, defaultVal) ==
    IF key \notin DOMAIN req
    THEN IF defaultVal # nullopt
         THEN Returned(CHOOSE v \in defaultVal : TRUE)
         ELSE Thrown("std::runtime_error", "Missing required parameter: " \o key)
    ELSE Returned(req[key])

\* Index of the first element of a sequence of outcomes that threw, 0 if none.
FirstThrown(rs) ==
    IF \E i \in 1..Len(rs) : ~rs[i].ok
    THEN CHOOSE i \in 1..Len(rs) : ~rs[i].ok /\ \A j \in 1..(i - 1) : rs[j].ok
    ELSE 0

\* (Faulty variant: only the last character is looked at.)
OnlyCharsLast(s, allowed) == Len(s) = 0 \/ CharAt(s, Len(s)) \in allowed
OnlyChars(s, allowed) == \A i \in 1..Len(s) : CharAt(s, i) \in allowed
Check(bad, what) ==
    IF bad THEN Thrown("std::runtime_error", what) ELSE Returned(TRUE)
\* The test of line 169.
\* (Faulty variant: the test of the fields that must not be negative.)
LevelBelowZero(level) == level < 0
LevelTooLow(level) == level < MinLevel

\* ----------------------------------------------------- getParamsFromRequest
\* Lines 120-128 read the nine fields in order; the first accessor that
\* throws ends the call.  Lines 130-185 then apply the checks in source order.
ReadFields(req) ==
    << getStringParam(req, "board", nullopt),
       getIntParam(req, "level", Some(DefaultLevel)),
       getIntParam(req, "lines", Some(DefaultLines)),
       getIntParam(req, "currentPiece", Some(DefaultPiece)),
       getIntParam(req, "nextPiece", Some(DefaultPiece)),
       getStringParam(req, "inputFrameTimeline", Some("X.")),
       getIntParam(req, "playoutCount", Some(DefaultPlayoutCount)),
       getIntParam(req, "playoutLength", Some(DefaultPlayoutLength)),
       getIntParam(req, "pruningBreadth", Some(DefaultPruningBreadth)) >>

SecondBoardChecks(req, requireSecondBoard) ==
    IF requireSecondBoard
    THEN LET sb == getStringParam(req, "secondBoard", nullopt)
         IN IF ~sb.ok THEN <<sb>>
            ELSE << Check(Len(sb.val) # BoardLen,
                          "Second board string must be 200 characters long"),
                    Check(~OnlyChars(sb.val, {"0", "1"}),
                          "Second board string must only contain 0s and 1s") >>
    ELSE << >>

ConstraintChecks(req, f, requireSecondBoard) ==
    << Check(Len(f[1].val) # BoardLen, "Board string must be 200 characters long"),
       Check(~OnlyChars(f[1].val, {"0", "1"}),
             "Board string must only contain 0s and 1s") >>
    \o SecondBoardChecks(req, requireSecondBoard)
    \o << Check(f[4].val < MinPiece \/ f[4].val > MaxPiece,
                "Current piece must be between -1 and 6"),
          Check(f[5].val < MinPiece \/ f[5].val > MaxPiece,
                "Next piece must be between -1 and 6"),
          Check(~OnlyChars(f[6].val, {"X", "."}),
                "inputFrameTimeline must only contain 'X' and '.'"),
          Check(LevelTooLow(f[2].val), "Level must be 18 or higher"),
          Check(f[3].val < 0, "Lines must be 0 or higher"),
          Check(f[7].val < 0, "Playout count must be 0 or higher"),
          Check(f[8].val < 0, "Playout length must be 0 or higher"),
          Check(f[9].val < 0, "Pruning breadth must be 0 or higher") >>

getParamsFromRequest(req, requireSecondBoard) ==
    LET f == ReadFields(req)
        e == FirstThrown(f)
    IN IF e # 0 THEN f[e]
       ELSE LET c == ConstraintChecks(req, f, requireSecondBoard)
                v == FirstThrown(c)
            IN IF v # 0 THEN c[v]
               ELSE Returned(
                      [ boardString |-> f[1].val,
                        secondBoardString |->
                            IF requireSecondBoard THEN req["secondBoard"] ELSE "",
                        level |-> f[2].val,
                        lines |-> f[3].val,
                        currentPiece |-> f[4].val,
                        nextPiece |-> f[5].val,
                        inputFrameTimeline |-> f[6].val,
                        playoutCount |-> f[7].val,
                        playoutLength |-> f[8].val,
                        pruningBreadth |-> f[9].val ])

\* ---------------------------------------------------- generateRequestString
\* (Faulty variant: no separator after the last field.)
generateRequestStringNoTrail(params) ==
    params.boardString \o "|"
    \o (IF params.secondBoardString # ""
        THEN params.secondBoardString \o "|" ELSE "")
    \o to_string(params.level) \o "|"
    \o to_string(params.lines) \o "|"
    \o to_string(params.currentPiece) \o "|"
    \o to_string(params.nextPiece) \o "|"
    \o params.inputFrameTimeline \o "|"
    \o to_string(params.playoutCount) \o "|"
    \o to_string(params.playoutLength) \o "|"
    \o to_string(params.pruningBreadth)
generateRequestString(params) ==
    params.boardString \o "|"
    \o (IF params.secondBoardString # ""
        THEN params.secondBoardString \o "|" ELSE "")
    \o to_string(params.level) \o "|"
    \o to_string(params.lines) \o "|"
    \o to_string(params.currentPiece) \o "|"
    \o to_string(params.nextPiece) \o "|"
    \o params.inputFrameTimeline \o "|"
    \o to_string(params.playoutCount) \o "|"
    \o to_string(params.playoutLength) \o "|"
    \o to_string(params.pruningBreadth) \o "|"

\* ------------------------------------------------------------- the requests
\* A request is described by its path and, per parameter, the set holding
\* its value (empty when the parameter is not sent); boards are named by
\* kind and expanded by BoardOf.  Query(d) is the url_params it carries.
ValidBoard == Rep("0", BoardLen)
OtherBoard == Rep("0", BoardLen - 1) \o "1"
BoardOf(kind) ==
    CASE kind = "valid" -> ValidBoard
      [] kind = "other" -> OtherBoard
      [] kind = "short" -> Rep("0", BoardLen - 1)
      [] kind = "long" -> Rep("1", BoardLen + 1)
      [] kind = "badchar" -> "2" \o Rep("0", BoardLen - 1)
      [] kind = "empty" -> ""

IntFields == <<"level", "lines", "currentPiece", "nextPiece",
               "playoutCount", "playoutLength", "pruningBreadth">>
StringFields == <<"inputFrameTimeline">>
BoardFields == <<"board", "secondBoard">>
Range(f) == {f[i] : i \in DOMAIN f}

Query(d) ==
    LET sent == {k \in Range(IntFields) \cup Range(StringFields) \cup Range(BoardFields) :
                   d[k] # {}}
    IN [k \in sent |->
          LET v == CHOOSE x \in d[k] : TRUE
          IN IF k \in Range(BoardFields) THEN BoardOf(v) ELSE v]

\* The request with no parameter at all, and with[...] overrides.
Bare(path) ==
    [ path |-> path, board |-> {}, secondBoard |-> {}, level |-> {}, lines |-> {},
      currentPiece |-> {}, nextPiece |-> {}, inputFrameTimeline |-> {},
      playoutCount |-> {}, playoutLength |-> {}, pruningBreadth |-> {} ]

TopMoves == "/top-moves-hybrid"
RateMove == "/rate-move"

\* Requests the handler threads serve in the pool specifications: two valid
\* ones (one per path) and one per kind of validation failure.
PoolRequests ==
    { [Bare(TopMoves) EXCEPT !.board = {"valid"}],
      [Bare(RateMove) EXCEPT !.board = {"valid"}, !.secondBoard = {"other"},
                             !.level = {"19"}],
      Bare(TopMoves),
      [Bare(TopMoves) EXCEPT !.board = {"valid"}, !.level = {"a"}],
      [Bare(RateMove) EXCEPT !.board = {"valid"}, !.secondBoard = {"other"},
                             !.currentPiece = {"7"}] }

\* ------------------------------------------------------------------- state
VARIABLES
    threads,      \* std::thread::hardware_concurrency() as main() read it
    workers,      \* ThreadPool::workers: the worker threads the constructor made
    wpc,          \* each worker's position in its loop
    wtask,        \* each worker's local `task` (a sequence of at most one)
    tasks,        \* ThreadPool::tasks
    queue_mutex,  \* owner of ThreadPool::queue_mutex, << >> when free
    stop,         \* ThreadPool::stop
    mainpc,       \* main(): serving, or its position in ~ThreadPool
    hpc,          \* each handler thread's position
    hreq,         \* the request each handler serves
    inputStr,     \* each handler's local inputStr
    future,       \* shared state of each handler's std::future
    resp,         \* the crow::response each handler returned
    enqOrder,     \* history: items in the order enqueue appended them
    deqOrder,     \* history: items in the order workers took them
    execCount,    \* history: Engine calls made for each item
    completions   \* history: times each item's shared state was made ready

vars == << threads, workers, wpc, wtask, tasks, queue_mutex, stop, mainpc, hpc,
           hreq, inputStr, future, resp, enqOrder, deqOrder, execCount,
           completions >>

poolVars == << workers, wpc, wtask, tasks, queue_mutex, stop >>
histVars == << enqOrder, deqOrder, execCount, completions >>

Handlers == 1..NumHandlers
Free == << >>
WorkerId(w) == <<"worker", w>>

\* ------------------------------------------------------------------ Engine
\* mainProcess(cInputStr, tag) is defined in main.cpp: an opaque function of
\* its two arguments, which may also end by throwing.
Text(s) == [kind |-> "text", text |-> s]
mainProcess(str, tag) == [kind |-> "engine", tag |-> tag, input |-> str]
EngineOutcomes(str, tag) ==
    { Returned(mainProcess(str, tag)),
      Thrown("std::runtime_error", "engine failure"),
      Thrown("non-std", "") }

httpGetTopMovesHybrid(str) == EngineOutcomes(str, "GET_TOP_MOVES_HYBRID")
httpRateMove(str) == EngineOutcomes(str, "RATE_MOVE")

\* The closure a handler passes to enqueue: the call it makes when run.
RunTask(t) ==
    IF t.path = TopMoves THEN httpGetTopMovesHybrid(t.inputStr)
    ELSE httpRateMove(t.inputStr)

\* ------------------------------------------------------------- constructor
\* for (size_t i = 0; i < threads; ++i) workers.emplace_back(...)
\* (Faulty variant: the loop bound off by one, i <= threads.)
ThreadPoolWorkersOffByOne(n) == 0..n
\* (Faulty variant: a thread is started before the loop as well.)
ThreadPoolWorkersOneMore(n) == 1..(n + 1)
ThreadPoolWorkers(n) == 1..n

Init ==
    /\ threads \in 0..MaxThreads
    /\ workers = ThreadPoolWorkers(threads)
    /\ wpc = [w \in workers |-> "idle"]
    /\ wtask = [w \in workers |-> << >>]
    /\ tasks = << >>
    /\ queue_mutex = Free
    /\ stop = FALSE
    /\ mainpc = "run"
    /\ hpc = [h \in Handlers |-> "idle"]
    /\ hreq = [h \in Handlers |-> << >>]
    /\ inputStr = [h \in Handlers |-> ""]
    /\ future = [h \in Handlers |-> << >>]
    /\ resp = [h \in Handlers |-> << >>]
    /\ enqOrder = << >>
    /\ deqOrder = << >>
    /\ execCount = [h \in Handlers |-> 0]
    /\ completions = [h \in Handlers |-> 0]

\* ------------------------------------------------------ condition variable
Waiting == {w \in workers : wpc[w] = "waiting"}
\* condition.notify_one(): unblocks one of the waiting threads, if any.
\* (Faulty variant: the notification is dropped.)
NotifyNobody == { {} }
NotifyOneTargets == IF Waiting = {} THEN { {} } ELSE { {w} : w \in Waiting }
\* condition.notify_all()
\* (Faulty variant: notify_one called in its place.)
NotifyAllWakesOne == IF Waiting = {} THEN {} ELSE {CHOOSE w \in Waiting : TRUE}
NotifyAllTargets == Waiting
Wake(ws) == [w \in workers |-> IF w \in ws THEN "woken" ELSE wpc[w]]

\* ------------------------------------------------------------- worker loop
\* The predicate of condition.wait (line 35) and the test of line 36.
WaitPredicate == stop \/ tasks # << >>
\* (Faulty variant of line 36: return as soon as stop is set.)
ExitOnStopAlone == stop
ExitCondition == stop /\ tasks = << >>
\* tasks.front() and tasks.pop()
\* (Faulty variant: tasks.pop() left out.)
PopKeepsFront(q) == q
\* (Faulty variant: tasks.back() taken.)
Back(q) == q[Len(q)]
Front(q) == Head(q)
Pop(q) == Tail(q)

\* The unique_lock goes out of scope at line 40, before task() is called.
\* (Faulty variant: the lock's scope extends over task().)
LockHeldOverTask(w) == WorkerId(w)
ScopeEnd(w) == Free

\* Line 34, or the re-acquisition inside condition.wait after a wake-up.
WorkerLock(w) ==
    /\ wpc[w] \in {"idle", "woken"}
    /\ queue_mutex = Free
    /\ queue_mutex' = WorkerId(w)
    /\ wpc' = [wpc EXCEPT ![w] = "check"]
    /\ UNCHANGED << threads, workers, wtask, tasks, stop, mainpc, hpc, hreq,
                    inputStr, future, resp, histVars >>

\* Line 35 with the predicate false: wait releases the mutex and blocks.
WorkerWait(w) ==
    /\ wpc[w] = "check"
    /\ ~WaitPredicate
    /\ queue_mutex' = Free
    /\ wpc' = [wpc EXCEPT ![w] = "waiting"]
    /\ UNCHANGED << threads, workers, wtask, tasks, stop, mainpc, hpc, hreq,
                    inputStr, future, resp, histVars >>

\* A condition variable may wake a waiter that nobody notified.
SpuriousWake(w) ==
    /\ wpc[w] = "waiting"
    /\ wpc' = [wpc EXCEPT ![w] = "woken"]
    /\ UNCHANGED << threads, workers, wtask, tasks, queue_mutex, stop, mainpc,
                    hpc, hreq, inputStr, future, resp, histVars >>

\* Lines 36-37: return, releasing the lock.
WorkerExit(w) ==
    /\ wpc[w] = "check"
    /\ WaitPredicate
    /\ ExitCondition
    /\ queue_mutex' = Free
    /\ wpc' = [wpc EXCEPT ![w] = "exited"]
    /\ UNCHANGED << threads, workers, wtask, tasks, stop, mainpc, hpc, hreq,
                    inputStr, future, resp, histVars >>

\* Lines 38-40: take the front task, pop it, release the lock; task() is
\* entered next.
WorkerDequeue(w) ==
    /\ wpc[w] = "check"
    /\ WaitPredicate
    /\ ~ExitCondition
    /\ tasks # << >>
    /\ wtask' = [wtask EXCEPT ![w] = <<Front(tasks)>>]
    /\ tasks' = Pop(tasks)
    /\ deqOrder' = Append(deqOrder, Front(tasks).id)
    /\ queue_mutex' = ScopeEnd(w)
    /\ wpc' = [wpc EXCEPT ![w] = "running"]
    /\ UNCHANGED << threads, workers, stop, mainpc, hpc, hreq, inputStr, future,
                    resp, enqOrder, execCount, completions >>

\* Where the worker is after task(): the packaged_task catches what the
\* call throws, so task() always returns and the loop goes round.
\* (Faulty variant: the exception leaves task() and ends the thread.)
ThreadEndsOnThrow(out) == IF out.ok THEN "idle" ELSE "exited"
AfterTask(out) == "idle"

\* Line 41: task() runs the packaged_task, which calls the Engine and stores
\* what it returned or threw in the shared state of the item's future; the
\* worker then loops.
WorkerRun(w) ==
    /\ wpc[w] = "running"
    /\ LET t == wtask[w][1]
       IN \E out \in RunTask(t) :
            /\ future' = [future EXCEPT ![t.id] = <<out>>]
            /\ execCount' = [execCount EXCEPT ![t.id] = @ + 1]
            /\ completions' = [completions EXCEPT ![t.id] = @ + 1]
            /\ wpc' = [wpc EXCEPT ![w] = AfterTask(out)]
    /\ wtask' = [wtask EXCEPT ![w] = << >>]
    /\ UNCHANGED << threads, workers, tasks, queue_mutex, stop, mainpc, hpc,
                    hreq, inputStr, resp, enqOrder, deqOrder >>

\* ---------------------------------------------------------------- handlers
\* The two catch clauses of a route's lambda (lines 229-233 and 246-250).
\* Every exception type the C++ library or the helpers throw derives from
\* std::exception; "non-std" stands for a thrown object that does not.
IsStdException(type) ==
    type \in {"std::runtime_error", "std::invalid_argument", "std::out_of_range",
              "std::future_error"}
Response(status, body) == [status |-> status, body |-> body]
\* (Faulty variant: every exception answered by the catch-all clause.)
CatchAllFirst(ex) == Response(500, Text("An unknown error occurred"))
Catch(ex) ==
    IF IsStdException(ex.type)
    THEN Response(400, Text(ex.what))
    ELSE Response(500, Text("An unknown error occurred"))

\* (Faulty variant: the second board asked of both routes.)
requireSecondBoardAlways(path) == TRUE
requireSecondBoard(path) == path = RateMove

\* Lines 223-224 (240-241), and lines 50-52 of enqueue: the request is
\* parsed and serialized and the packaged_task and its future are made, all
\* on the handler's own stack.  A throw goes straight to the catch clauses.
\* Handler h serves the h-th request to arrive.
Receive(h, requests) ==
    /\ hpc[h] = "idle"
    /\ IF h = 1 THEN TRUE ELSE hpc[h - 1] # "idle"
    /\ mainpc # "destroyed"
    /\ \E d \in requests :
         LET r == getParamsFromRequest(Query(d), requireSecondBoard(d.path))
         IN /\ hreq' = [hreq EXCEPT ![h] = <<d>>]
            /\ IF r.ok
               THEN /\ inputStr' = [inputStr EXCEPT ![h] = generateRequestString(r.val)]
                    /\ hpc' = [hpc EXCEPT ![h] = "lock"]
                    /\ resp' = resp
               ELSE /\ inputStr' = inputStr
                    /\ hpc' = [hpc EXCEPT ![h] = "done"]
                    /\ resp' = [resp EXCEPT ![h] = <<Catch(r)>>]
    /\ UNCHANGED << threads, poolVars, mainpc, future, histVars >>

HandlerReceive(h) == Receive(h, PoolRequests)

\* enqueue, lines 53-58: the block that holds queue_mutex, taken as one step
\* since nothing in it can be observed by a thread that does not hold the
\* mutex.  The throw unwinds through the unique_lock to the handler's catch
\* clauses.
\* (Faulty variants: the stop test left out; the task put at the front.)
NeverRejects == FALSE
EnqueueRejects == stop
EmplaceFront(q, t) == <<t>> \o q
Emplace(q, t) == Append(q, t)

EnqueueThrow(h) ==
    /\ hpc[h] = "lock"
    /\ queue_mutex = Free
    /\ EnqueueRejects
    /\ resp' = [resp EXCEPT ![h] =
                  <<Catch(Thrown("std::runtime_error", "enqueue on stopped ThreadPool"))>>]
    /\ hpc' = [hpc EXCEPT ![h] = "done"]
    /\ UNCHANGED << threads, poolVars, mainpc, hreq, inputStr, future, histVars >>

EnqueueEmplace(h) ==
    /\ hpc[h] = "lock"
    /\ queue_mutex = Free
    /\ ~EnqueueRejects
    /\ tasks' = Emplace(tasks, [id |-> h, path |-> hreq[h][1].path,
                                inputStr |-> inputStr[h]])
    /\ enqOrder' = Append(enqOrder, h)
    /\ hpc' = [hpc EXCEPT ![h] = "notify"]
    /\ UNCHANGED << threads, workers, wpc, wtask, queue_mutex, stop, mainpc, hreq,
                    inputStr, future, resp, deqOrder, execCount, completions >>

\* enqueue, lines 59-60
EnqueueNotify(h) ==
    /\ hpc[h] = "notify"
    /\ \E ws \in NotifyOneTargets : wpc' = Wake(ws)
    /\ hpc' = [hpc EXCEPT ![h] = "get"]
    /\ UNCHANGED << threads, workers, wtask, tasks, queue_mutex, stop, mainpc,
                    hreq, inputStr, future, resp, histVars >>

\* Line 228 (245): res.get() blocks until the shared state is ready, then
\* returns the value or rethrows the stored exception.
HandlerGet(h) ==
    /\ hpc[h] = "get"
    /\ future[h] # << >>
    /\ LET out == future[h][1]
       IN resp' = [resp EXCEPT ![h] =
                     <<IF out.ok THEN Response(200, out.val) ELSE Catch(out)>>]
    /\ hpc' = [hpc EXCEPT ![h] = "done"]
    /\ UNCHANGED << threads, poolVars, mainpc, hreq, inputStr, future, histVars >>

\* -------------------------------------------------------------- destructor
\* main() leaves app.run() and `pool` goes out of scope.
\* Lines 64-67, one step under the mutex.
DtorSetStop ==
    /\ mainpc = "run"
    /\ queue_mutex = Free
    /\ stop' = TRUE
    /\ mainpc' = "dtor_notify"
    /\ UNCHANGED << threads, workers, wpc, wtask, tasks, queue_mutex, hpc, hreq,
                    inputStr, future, resp, histVars >>

DtorNotifyAll ==
    /\ mainpc = "dtor_notify"
    /\ wpc' = Wake(NotifyAllTargets)
    /\ mainpc' = "dtor_join"
    /\ UNCHANGED << threads, workers, wtask, tasks, queue_mutex, stop, hpc, hreq,
                    inputStr, future, resp, histVars >>

\* Lines 69-70, then the members are destroyed: a task still queued is
\* destroyed unrun and its packaged_task breaks its promise.  The object
\* must outlive every call of enqueue, so no handler is inside one.
DtorJoin ==
    /\ mainpc = "dtor_join"
    /\ \A w \in workers : wpc[w] = "exited"
    /\ \A h \in Handlers : hpc[h] \notin {"lock", "notify"}
    /\ LET left == {tasks[i].id : i \in 1..Len(tasks)}
       IN /\ future' = [h \in Handlers |->
                          IF h \in left
                          THEN <<Thrown("std::future_error",
                                        "std::future_error: Broken promise")>>
                          ELSE future[h]]
          /\ completions' = [h \in Handlers |->
                               IF h \in left THEN completions[h] + 1
                               ELSE completions[h]]
    /\ tasks' = << >>
    /\ mainpc' = "destroyed"
    /\ UNCHANGED << threads, workers, wpc, wtask, queue_mutex, stop, hpc, hreq,
                    inputStr, resp, enqOrder, deqOrder, execCount >>

\* ----------------------------------------------------------- specification
Next ==
    \/ \E w \in workers :
         \/ WorkerLock(w)
         \/ WorkerWait(w)
         \/ SpuriousWake(w)
         \/ WorkerExit(w)
         \/ WorkerDequeue(w)
         \/ WorkerRun(w)
    \/ \E h \in Handlers :
         \/ HandlerReceive(h)
         \/ EnqueueThrow(h)
         \/ EnqueueEmplace(h)
         \/ EnqueueNotify(h)
         \/ HandlerGet(h)
    \/ DtorSetStop
    \/ DtorNotifyAll
    \/ DtorJoin

Spec == Init /\ [][Next]_vars

\* Scheduling: a thread that can take its next step is eventually run
\* (weak fairness per thread; a step that locks queue_mutex can be taken
\* while the mutex is free) and Engine calls terminate.  Nothing obliges a
\* request to arrive, main() to leave app.run(), or the condition variable
\* to wake a waiter that nobody notified.
WorkerIds == 1..MaxThreads
WorkerStep(w) ==
    /\ w \in workers
    /\ \/ WorkerLock(w)
       \/ WorkerWait(w)
       \/ WorkerExit(w)
       \/ WorkerDequeue(w)
       \/ WorkerRun(w)
HandlerStep(h) ==
    EnqueueThrow(h) \/ EnqueueEmplace(h) \/ EnqueueNotify(h) \/ HandlerGet(h)
Fairness ==
    /\ \A w \in WorkerIds : WF_vars(WorkerStep(w))
    /\ \A h \in Handlers : WF_vars(HandlerStep(h))
    /\ WF_vars(DtorNotifyAll \/ DtorJoin)

FairSpec == Init /\ [][Next]_vars /\ Fairness

\* ------------------------------------------- specification of the parsing
\* Candidate values of an integer parameter: every string of at most MaxLen
\* characters over IntAlphabet, and a few longer ones.
IntAlphabet == {"1", "8", "a", "-", " "}
RECURSIVE StringsUpTo(_)
StringsUpTo(n) ==
    IF n = 0 THEN { "" }
    ELSE LET shorter == StringsUpTo(n - 1)
         IN shorter \cup {s \o c : s \in shorter, c \in IntAlphabet}
IntCandidates ==
    StringsUpTo(MaxLen)
    \cup { "18abc", "+19", "99999999999", "2147483647", "2147483648",
           "-2147483648" }

Complete(path) ==
    [Bare(path) EXCEPT !.board = {"valid"},
                       !.secondBoard = IF path = RateMove THEN {"other"} ELSE {}]

ParseRequests ==
    PoolRequests
    \cup { [Complete(path) EXCEPT ![f] = {s}] :
             path \in {TopMoves, RateMove}, f \in Range(IntFields),
             s \in IntCandidates }

\* One handler parses, validates and serializes one request.
ParseRequest(h) == Receive(h, ParseRequests)
ParseNext == ParseRequest(1)
ParseSpec == Init /\ [][ParseNext]_vars

\* ---------------------------------------- specification of the validation
\* Requests that combine, field by field, an absent parameter, a value
\* that passes and values that fail in each way the code tells apart; and
\* the requests of the parsing specification, for the integer values.
ValidateRequests ==
    { [ path |-> path, board |-> b, secondBoard |-> sb, level |-> lv,
        lines |-> ln, currentPiece |-> cp, nextPiece |-> np,
        inputFrameTimeline |-> tl, playoutCount |-> pc, playoutLength |-> {},
        pruningBreadth |-> {} ] :
        path \in {TopMoves, RateMove},
        b \in {{}, {"valid"}, {"short"}, {"long"}, {"badchar"}, {"empty"}},
        sb \in {{}, {"other"}, {"short"}, {"badchar"}},
        lv \in {{}, {"17"}, {"a"}},
        ln \in {{}, {"-1"}, {"230"}},
        cp \in {{}, {"7"}, {"0"}},
        np \in {{}, {"-2"}},
        tl \in {{}, {"Xa"}, {""}},
        pc \in {{}, {"x"}} }
    \cup ParseRequests

ValidateRequest(h) == Receive(h, ValidateRequests)
ValidateNext == ValidateRequest(1)
ValidateSpec == Init /\ [][ValidateNext]_vars

\* =================================================================== claims
Running == {w \in workers : wpc[w] = "running"}
Accepted(h) == \E i \in 1..Len(enqOrder) : enqOrder[i] = h
Occurrences(q, x) == Cardinality({i \in 1..Len(q) : q[i] = x})
Ids(q) == [i \in 1..Len(q) |-> q[i].id]
ValidationOf(d) == getParamsFromRequest(Query(d), requireSecondBoard(d.path))
Validation(h) == ValidationOf(hreq[h][1])
TagOf(h) == IF hreq[h][1].path = TopMoves THEN "GET_TOP_MOVES_HYBRID" ELSE "RATE_MOVE"

\* C1: with P = threads workers constructed, at most P workers are inside an
\* Engine call in any reachable state, however many items were submitted.
C1_AtMostPRunning == Cardinality(Running) <= threads

\* C1 witness: more items were submitted than there are workers, every
\* worker is inside an Engine call and an item is waiting in the queue.
C1_Witness ==
    /\ threads >= 1
    /\ Len(enqOrder) > threads
    /\ Cardinality(Running) = threads
    /\ tasks # << >>

\* C2: an accepted item is dequeued at most once and run at most once, its
\* shared state is made ready at most once and exactly once by the time the
\* handler has its answer, no two workers hold the same item, and a value the
\* handler obtains is the Engine's result for the item's own operation tag
\* and canonical request string.
C2_ExactlyOnceOwnResult ==
    \A h \in Handlers :
        /\ Occurrences(deqOrder, h) <= 1
        /\ execCount[h] <= 1
        /\ completions[h] <= 1
        /\ \A w1, w2 \in Running : wtask[w1][1].id = wtask[w2][1].id => w1 = w2
        /\ (Accepted(h) /\ hpc[h] = "done") => completions[h] = 1
        /\ future[h] # << >> => Accepted(h)
        /\ (future[h] # << >> /\ future[h][1].ok) =>
              /\ execCount[h] = 1
              /\ future[h][1].val =
                    mainProcess(generateRequestString(Validation(h).val), TagOf(h))
        /\ (resp[h] # << >> /\ resp[h][1].status = 200) =>
              resp[h][1].body =
                    mainProcess(generateRequestString(Validation(h).val), TagOf(h))

\* C2 witness: two handlers whose items differ both hold a 200 response.
C2_Witness ==
    \E h1, h2 \in Handlers :
        /\ h1 # h2
        /\ resp[h1] # << >> /\ resp[h1][1].status = 200
        /\ resp[h2] # << >> /\ resp[h2][1].status = 200
        /\ resp[h1][1].body # resp[h2][1].body

\* C3: the queue is FIFO and loses nothing: workers take the items in the
\* order enqueue appended them (the items taken are a prefix of the items
\* appended), and for as long as the queue exists the items taken, followed
\* by the items still queued, are exactly the items appended, in that order.
IsPrefix(p, q) == Len(p) <= Len(q) /\ \A i \in 1..Len(p) : p[i] = q[i]
C3_Fifo ==
    /\ IsPrefix(deqOrder, enqOrder)
    /\ mainpc # "destroyed" => enqOrder = deqOrder \o Ids(tasks)

\* C3 witness: two items are queued at once, so the order of leaving matters.
C3_Witness == Len(tasks) = 2 /\ tasks[1].id # tasks[2].id

\* C4: under fair scheduling and terminating Engine calls, every accepted
\* item is eventually executed (once), unless the pool is destroyed before
\* the item is dequeued.
C4_EventuallyExecuted ==
    \A h \in Handlers :
        Accepted(h) ~> \/ execCount[h] = 1
                       \/ mainpc = "destroyed" /\ Occurrences(deqOrder, h) = 0

\* The same with at least one worker: every accepted item is then executed,
\* whether or not the destructor runs meanwhile.
C4_ExecutedGivenWorkers ==
    \A h \in Handlers : (threads >= 1 /\ Accepted(h)) ~> execCount[h] = 1

\* C5: no lost wake-up: whenever an item is queued and some worker is at the
\* top of its loop (Idle) or inside condition.wait (Waiting: blocked, or
\* woken and re-acquiring the mutex, or re-testing the predicate), a worker
\* takes an item and enters task() within finite time.
IdleOrWaiting == \E w \in workers : wpc[w] \in {"idle", "waiting", "woken", "check"}
C5_NoLostWakeup ==
    \A n \in 0..NumHandlers :
        (tasks # << >> /\ IdleOrWaiting /\ Len(deqOrder) = n) ~> Len(deqOrder) > n

\* C5 witness: an item has been appended while a worker is blocked on the
\* condition variable and the producer has not yet called notify_one.
C5_Witness ==
    /\ tasks # << >>
    /\ \E w \in workers : wpc[w] = "waiting"
    /\ \E h \in Handlers : hpc[h] = "notify"

\* C6: enqueue on a stopped pool throws: the handler ends with an error
\* response, nothing is appended to the queue, no worker is woken, and the
\* work is never taken or run.
Rejected(h) == hpc[h] = "done" /\ inputStr[h] # "" /\ ~Accepted(h)
Holds(h) ==
    \/ \E i \in 1..Len(tasks) : tasks[i].id = h
    \/ \E w \in workers : wtask[w] # << >> /\ wtask[w][1].id = h
C6_RejectedLeavesNoTrace ==
    \A h \in Handlers :
        Rejected(h) =>
            /\ ~Holds(h)
            /\ Occurrences(deqOrder, h) = 0
            /\ execCount[h] = 0
            /\ future[h] = << >>
            /\ resp[h] # << >> /\ resp[h][1].status # 200
C6_EnqueueOnStopped ==
    \A h \in Handlers :
        (hpc[h] = "lock" /\ stop /\ hpc'[h] # "lock") =>
            /\ hpc'[h] = "done"
            /\ tasks' = tasks
            /\ enqOrder' = enqOrder
            /\ wpc' = wpc
            /\ UNCHANGED << wtask, queue_mutex, stop, future >>
C6_StoppedPoolRejects ==
    [](C6_RejectedLeavesNoTrace) /\ [][C6_EnqueueOnStopped]_vars

\* C6 witness: a handler's valid request was refused by a stopped pool while
\* an earlier item was still queued.
C6_Witness == stop /\ tasks # << >> /\ \E h \in Handlers : Rejected(h)

\* C7 as stated: once stop is set, no worker takes an item from the queue.
C7_NoDequeueAfterStop == [][stop => deqOrder' = deqOrder]_vars

\* C7 amended: on shutdown stop is set and notify_all wakes every blocked
\* worker; a worker finishes the item it is running; it leaves only from
\* the test of line 36, with no item in hand, when stop is set and the queue
\* is empty; a worker that finds an item queued takes it, stop or not.
C7_ShutdownStep ==
    /\ mainpc # "run" => stop
    /\ (mainpc = "dtor_notify" /\ mainpc' = "dtor_join") =>
           \A w \in workers : wpc'[w] # "waiting"
    /\ \A w \in workers :
          /\ (wpc[w] # "exited" /\ wpc'[w] = "exited") =>
                 stop /\ tasks = << >> /\ wpc[w] = "check" /\ wtask[w] = << >>
          /\ (wpc[w] = "check" /\ wpc'[w] # "check" /\ tasks # << >>) =>
                 /\ wpc'[w] = "running"
                 /\ wtask'[w] = <<Head(tasks)>>
                 /\ tasks' = Tail(tasks)
          /\ (wpc[w] = "running" /\ wpc'[w] # "running") =>
                 /\ wpc'[w] = "idle"
                 /\ completions'[wtask[w][1].id] = completions[wtask[w][1].id] + 1
C7_DrainThenExit == [][C7_ShutdownStep]_vars

\* C7 witness: with stop set and notify_all done, one worker is finishing
\* the item it runs and another holds the mutex at line 36 with an item
\* queued, which it can only take.
C7_Witness ==
    /\ mainpc = "dtor_join"
    /\ tasks # << >>
    /\ \E w \in workers : wpc[w] = "check"
    /\ \E w \in workers : wpc[w] = "running"

\* C8: a request that fails validation is answered 400 with the message of
\* the error, in the step that receives it, and the pool is not touched:
\* nothing is enqueued for it and the queue, the workers, the mutex and the
\* stop flag are as they were.
Invalid(h) == hreq[h] # << >> /\ ~ValidationOf(hreq[h][1]).ok
C8_InvalidAnswered ==
    \A h \in Handlers :
        Invalid(h) =>
            /\ hpc[h] = "done"
            /\ resp[h] = <<Response(400, Text(ValidationOf(hreq[h][1]).what))>>
            /\ inputStr[h] = ""
            /\ ~Accepted(h)
            /\ ~Holds(h)
            /\ future[h] = << >>
            /\ execCount[h] = 0
C8_InvalidStep ==
    \A h \in Handlers :
        (hreq[h] = << >> /\ hreq'[h] # << >> /\ ~ValidationOf(hreq'[h][1]).ok) =>
            UNCHANGED << poolVars, enqOrder, deqOrder, future >>
C8_ValidationFailure400 == [](C8_InvalidAnswered) /\ [][C8_InvalidStep]_vars

\* C8 witness: a request was refused for a malformed integer while a worker
\* was inside an Engine call.
C8_Witness ==
    /\ Running # {}
    /\ \E h \in Handlers :
          /\ Invalid(h)
          /\ ValidationOf(hreq[h][1]).type = "std::invalid_argument"
          /\ resp[h] # << >>

\* C9 as stated: a failure that is not a validation failure (enqueue threw
\* on a stopped pool, or the Engine ended exceptionally) is answered 500
\* with the fixed body, never 400 and never with the error's own message.
NonValidationFailure(h) ==
    /\ hpc[h] = "done"
    /\ \/ Rejected(h)
       \/ future[h] # << >> /\ ~future[h][1].ok
C9_ServerErrorsAre500 ==
    \A h \in Handlers :
        NonValidationFailure(h) =>
            resp[h] = <<Response(500, Text("An unknown error occurred"))>>

\* C10 as stated: an integer parameter that is present and is not a complete
\* decimal integer (optional white space and sign, then digits to the end of
\* the value) is refused with a malformed-integer error.
IsDecimalInteger(s) ==
    LET i0 == SkipSpace(s, 1)
        first == IF i0 <= Len(s) /\ CharAt(s, i0) \in {"+", "-"} THEN i0 + 1 ELSE i0
    IN first <= Len(s) /\ \A i \in first..Len(s) : IsDigit(CharAt(s, i))
MalformedIntegerSent(d) ==
    \E f \in Range(IntFields) : d[f] # {} /\ \E v \in d[f] : ~IsDecimalInteger(v)
C10_MalformedIntegerRejected ==
    \A h \in Handlers :
        (hreq[h] # << >> /\ MalformedIntegerSent(hreq[h][1])) =>
            /\ ~ValidationOf(hreq[h][1]).ok
            /\ hpc[h] = "done"
            /\ resp[h] # << >> /\ resp[h][1].status = 400

\* ------------------------------------------------------------ C11 .. C14
\* The value a request carries for a parameter it sends.
Sent(d, f) == d[f] # {}
ValueOf(d, f) == CHOOSE v \in d[f] : TRUE
Answer(h) == resp[h][1]
Error400(what) == Response(400, Text(what))

\* C11 as stated: a request whose board is present and is not 200
\* characters of '0' and '1' is refused for its board, whatever its other
\* parameters are.
BoardViolation(d) ==
    /\ Sent(d, "board")
    /\ \/ Len(BoardOf(ValueOf(d, "board"))) # BoardLen
       \/ \E i \in 1..Len(BoardOf(ValueOf(d, "board"))) :
             CharAt(BoardOf(ValueOf(d, "board")), i) \notin {"0", "1"}
BoardErrors ==
    { Error400("Board string must be 200 characters long"),
      Error400("Board string must only contain 0s and 1s") }
C11_BoardViolationAlways ==
    \A h \in Handlers :
        (hreq[h] # << >> /\ BoardViolation(hreq[h][1])) =>
            /\ hpc[h] = "done"
            /\ Answer(h) \in BoardErrors

\* C11 amended: the same, for the requests whose integer parameters, when
\* sent, are all converted by std::stoi; their values, and the values of
\* every other parameter, are arbitrary (out of range included).  The length
\* is tested before the characters.
IntegersConvert(d) ==
    \A f \in Range(IntFields) : Sent(d, f) => stoi(ValueOf(d, f)).ok
C11_BoardViolationAfterParsing ==
    \A h \in Handlers :
        (hreq[h] # << >> /\ BoardViolation(hreq[h][1]) /\ IntegersConvert(hreq[h][1])) =>
            /\ hpc[h] = "done"
            /\ inputStr[h] = ""
            /\ Answer(h) =
                  IF Len(BoardOf(ValueOf(hreq[h][1], "board"))) # BoardLen
                  THEN Error400("Board string must be 200 characters long")
                  ELSE Error400("Board string must only contain 0s and 1s")

\* C11 witness: a board with a foreign character, sent with a level, a
\* piece, a timeline and a line count that each break their own constraint,
\* was refused for the board's characters.
C11_Witness ==
    \E h \in Handlers :
        /\ hreq[h] # << >>
        /\ hreq[h][1].board = {"badchar"}
        /\ hreq[h][1].level = {"17"}
        /\ hreq[h][1].currentPiece = {"7"}
        /\ hreq[h][1].inputFrameTimeline = {"Xa"}
        /\ hreq[h][1].lines = {"-1"}
        /\ resp[h] = <<Error400("Board string must only contain 0s and 1s")>>

\* C12 as stated: a request whose level is an integer below 18 is refused
\* for its level, whatever its other parameters are.
LevelError == Error400("Level must be 18 or higher")
LevelBelowFloor(d) ==
    /\ Sent(d, "level")
    /\ IsDecimalInteger(ValueOf(d, "level"))
    /\ stoi(ValueOf(d, "level")).ok
    /\ stoi(ValueOf(d, "level")).val < MinLevel
C12_LevelViolationAlways ==
    \A h \in Handlers :
        (hreq[h] # << >> /\ LevelBelowFloor(hreq[h][1])) =>
            /\ hpc[h] = "done"
            /\ resp[h] = <<LevelError>>

\* C12 amended: the same, for the requests that pass everything the code
\* tests before the level: the board (and the second board on /rate-move)
\* is sent and is 200 characters of '0' and '1', the integer parameters
\* sent are all converted, both pieces are within -1..6 and the timeline
\* holds only 'X' and '.'.  The parameters tested after the level (lines,
\* playoutCount, playoutLength, pruningBreadth) are arbitrary.
GoodBoard(d, f) ==
    /\ Sent(d, f)
    /\ Len(BoardOf(ValueOf(d, f))) = BoardLen
    /\ \A i \in 1..BoardLen : CharAt(BoardOf(ValueOf(d, f)), i) \in {"0", "1"}
PieceInRange(d, f) ==
    Sent(d, f) => stoi(ValueOf(d, f)).val \in MinPiece..MaxPiece
TimelineClean(d) ==
    Sent(d, "inputFrameTimeline") =>
        \A i \in 1..Len(ValueOf(d, "inputFrameTimeline")) :
            CharAt(ValueOf(d, "inputFrameTimeline"), i) \in {"X", "."}
PassesUpToLevel(d) ==
    /\ IntegersConvert(d)
    /\ GoodBoard(d, "board")
    /\ d.path = RateMove => GoodBoard(d, "secondBoard")
    /\ PieceInRange(d, "currentPiece")
    /\ PieceInRange(d, "nextPiece")
    /\ TimelineClean(d)
C12_LevelViolationInOrder ==
    \A h \in Handlers :
        (hreq[h] # << >> /\ LevelBelowFloor(hreq[h][1]) /\ PassesUpToLevel(hreq[h][1])) =>
            /\ hpc[h] = "done"
            /\ inputStr[h] = ""
            /\ resp[h] = <<LevelError>>

\* C12 witness: level 17 sent with a negative line count was refused for
\* the level.
C12_Witness ==
    \E h \in Handlers :
        /\ hreq[h] # << >>
        /\ hreq[h][1].level = {"17"}
        /\ hreq[h][1].lines = {"-1"}
        /\ hreq[h][1].path = RateMove
        /\ resp[h] = <<LevelError>>

\* What the Engine sees when it cuts the request string at every '|': the
\* positions of the separators and the segment that ends at the k-th one.
Separators(s) == {i \in 1..Len(s) : CharAt(s, i) = "|"}
SeparatorAt(s, k) ==
    CHOOSE i \in Separators(s) : Cardinality({j \in Separators(s) : j < i}) = k - 1
Segment(s, k) ==
    SubSeq(s, IF k = 1 THEN 1 ELSE SeparatorAt(s, k - 1) + 1, SeparatorAt(s, k) - 1)
IntegerSegment(s, k, n) ==
    /\ IsDecimalInteger(Segment(s, k))
    /\ stoi(Segment(s, k)) = Returned(n)

\* C13: the string made for a validated record R ends with '|', holds 9
\* separators when R.secondBoardString is empty and 10 otherwise, and its
\* segments, in order, are board, [secondBoard], level, lines, currentPiece,
\* nextPiece, inputFrameTimeline, playoutCount, playoutLength,
\* pruningBreadth: the strings verbatim, the integers as decimal numbers
\* that convert back to the field's value.
Serialized(h) == hreq[h] # << >> /\ ValidationOf(hreq[h][1]).ok
C13_SerializeRoundTrip ==
    \A h \in Handlers :
        Serialized(h) =>
            LET R == ValidationOf(hreq[h][1]).val
                s == inputStr[h]
                n == Cardinality(Separators(s))
                o == IF R.secondBoardString = "" THEN 0 ELSE 1
            IN /\ Len(s) > 0
               /\ CharAt(s, Len(s)) = "|"
               /\ n = 9 + o
               /\ Segment(s, 1) = R.boardString
               /\ o = 1 => Segment(s, 2) = R.secondBoardString
               /\ IntegerSegment(s, 2 + o, R.level)
               /\ IntegerSegment(s, 3 + o, R.lines)
               /\ IntegerSegment(s, 4 + o, R.currentPiece)
               /\ IntegerSegment(s, 5 + o, R.nextPiece)
               /\ Segment(s, 6 + o) = R.inputFrameTimeline
               /\ IntegerSegment(s, 7 + o, R.playoutCount)
               /\ IntegerSegment(s, 8 + o, R.playoutLength)
               /\ IntegerSegment(s, 9 + o, R.pruningBreadth)

\* C13 witness: a /rate-move record with a second board, an empty timeline,
\* a three-digit line count and the negative piece default was serialized.
C13_Witness ==
    \E h \in Handlers :
        /\ Serialized(h)
        /\ hpc[h] = "lock"
        /\ hreq[h][1].path = RateMove
        /\ hreq[h][1].inputFrameTimeline = {""}
        /\ hreq[h][1].lines = {"230"}
        /\ hreq[h][1].nextPiece = {}
        /\ Cardinality(Separators(inputStr[h])) = 10

\* C14: on /top-moves-hybrid the secondBoard parameter has no effect: the
\* outcome of validation is the outcome for the same request without it
\* (the same record with an empty secondBoardString, or the same error,
\* never an error about the second board), and the request string made
\* holds no second-board segment: 9 separators, the level right after the
\* board.
WithoutSecondBoard(d) == [d EXCEPT !.secondBoard = {}]
SecondBoardErrors ==
    { Error400("Missing required parameter: secondBoard"),
      Error400("Second board string must be 200 characters long"),
      Error400("Second board string must only contain 0s and 1s") }
C14_SecondBoardIgnored ==
    \A h \in Handlers :
        (hreq[h] # << >> /\ hreq[h][1].path = TopMoves) =>
            LET r == ValidationOf(hreq[h][1])
                r0 == ValidationOf(WithoutSecondBoard(hreq[h][1]))
            IN /\ r = r0
               /\ r.ok =>
                     /\ r.val.secondBoardString = ""
                     /\ hpc[h] = "lock"
                     /\ inputStr[h] = generateRequestString(r0.val)
                     /\ Cardinality(Separators(inputStr[h])) = 9
                     /\ IntegerSegment(inputStr[h], 2, r.val.level)
               /\ ~r.ok =>
                     /\ hpc[h] = "done"
                     /\ resp[h] = <<Catch(r0)>>
                     /\ Answer(h) \notin SecondBoardErrors

\* C14 witness: a /top-moves-hybrid request that carried a second board of
\* the wrong length was validated and serialized.
C14_Witness ==
    \E h \in Handlers :
        /\ hreq[h] # << >>
        /\ hreq[h][1].path = TopMoves
        /\ hreq[h][1].secondBoard = {"short"}
        /\ hpc[h] = "lock"
        /\ inputStr[h] # ""

\* ------------------------------------------------------------ C15 .. C20
\* C15: a worker becomes Exited only from inside condition.wait / the test
\* of line 36, holding queue_mutex, with stop set and the queue empty (so
\* never with stop clear and never with an item queued); an exited worker
\* implies stop; and once stop is set and all the pool's workers have
\* exited, the queue is empty.
AllExited == \A w \in workers : wpc[w] = "exited"
C15_ExitStep ==
    \A w \in workers :
        (wpc[w] # "exited" /\ wpc'[w] = "exited") =>
            /\ wpc[w] = "check"
            /\ queue_mutex = WorkerId(w)
            /\ stop
            /\ tasks = << >>
            /\ UNCHANGED << tasks, wtask, stop >>
C15_ExitedState ==
    /\ \A w \in workers : wpc[w] = "exited" => stop
    /\ (stop /\ AllExited) => tasks = << >>
C15_ExitOnlyWhenDrained == [](C15_ExitedState) /\ [][C15_ExitStep]_vars

\* The same for a pool that has at least one worker.
C15_ExitedStateGivenWorkers == threads >= 1 => C15_ExitedState
C15_DrainedGivenWorkers ==
    [](C15_ExitedStateGivenWorkers) /\ [][C15_ExitStep]_vars

\* C16: queue_mutex is held only for the bookkeeping: a worker that holds
\* it is at lines 34-40 (never inside task()), so whenever a worker is in an
\* Engine call the mutex is free or held by a thread doing bookkeeping, and
\* the call keeps neither a dequeue nor an enqueue waiting.
C16_NoMutexAcrossEngineCall ==
    \A w \in workers :
        /\ wpc[w] = "running" => queue_mutex # WorkerId(w)
        /\ queue_mutex = WorkerId(w) => wpc[w] = "check"
        /\ (wpc[w] = "running" /\ queue_mutex # Free) =>
               \E v \in workers \ {w} : queue_mutex = WorkerId(v) /\ wpc[v] = "check"

\* C16 witness: while one worker is in an Engine call, another worker holds
\* the mutex with an item to take.
C16_Witness ==
    /\ \E w \in workers : wpc[w] = "running"
    /\ \E v \in workers : queue_mutex = WorkerId(v) /\ tasks # << >>

\* C17: the events of an item are ordered: it is taken and run only after
\* enqueue appended it; res.get() yields a value, and a 200 response exists,
\* only after a worker has run the item to the end (the item is then
\* neither queued nor in a worker's hands); and while the item is queued or
\* running its handler is still inside enqueue or blocked in res.get(), with
\* no value and no response.
C17_HappensBefore ==
    \A h \in Handlers :
        /\ (Occurrences(deqOrder, h) > 0 \/ execCount[h] > 0 \/ Holds(h)) => Accepted(h)
        /\ execCount[h] > 0 => Occurrences(deqOrder, h) > 0
        /\ (future[h] # << >> /\ future[h][1].ok) =>
               execCount[h] = 1 /\ ~Holds(h)
        /\ (resp[h] # << >> /\ resp[h][1].status = 200) =>
               /\ execCount[h] = 1
               /\ ~Holds(h)
               /\ future[h] # << >> /\ future[h][1].ok
        /\ Holds(h) =>
               /\ hpc[h] \in {"notify", "get"}
               /\ future[h] = << >>
               /\ resp[h] = << >>
C17_AwaitStep ==
    \A h \in Handlers :
        (hpc[h] = "get" /\ hpc'[h] # "get") =>
            /\ future[h] # << >>
            /\ ~Holds(h)
            /\ future[h][1].ok => execCount[h] = 1
C17_Ordering == [](C17_HappensBefore) /\ [][C17_AwaitStep]_vars

\* C17 witness: one handler holds its 200 response while the other is
\* blocked in res.get() on an item that a worker is running.
C17_Witness ==
    \E h1, h2 \in Handlers :
        /\ resp[h1] # << >> /\ resp[h1][1].status = 200
        /\ hpc[h2] = "get"
        /\ \E w \in workers :
              wpc[w] = "running" /\ wtask[w] # << >> /\ wtask[w][1].id = h2

\* C18, the parts common to the claim as stated and as amended.  With
\* threads = 0: nothing is ever taken or run; an accepted item stays queued,
\* its handler inside enqueue or blocked in res.get() with no response, for
\* as long as the pool exists; and enqueue appends whenever stop is clear.
\* With threads >= 1 every accepted item is run and its handler answers.
Queued(h) == \E i \in 1..Len(tasks) : tasks[i].id = h
C18_Starved ==
    threads = 0 =>
        /\ deqOrder = << >>
        /\ \A h \in Handlers :
              /\ execCount[h] = 0
              /\ (Accepted(h) /\ mainpc # "destroyed") =>
                     /\ Queued(h)
                     /\ hpc[h] \in {"notify", "get"}
                     /\ future[h] = << >>
                     /\ resp[h] = << >>
C18_Accepts ==
    \A h \in Handlers :
        (threads = 0 /\ ~stop /\ hpc[h] = "lock" /\ hpc'[h] # "lock") =>
            /\ enqOrder' = Append(enqOrder, h)
            /\ Len(tasks') = Len(tasks) + 1
            /\ tasks'[Len(tasks')].id = h
C18_NoStarvationGivenWorkers ==
    \A h \in Handlers :
        (threads >= 1 /\ Accepted(h)) ~> (execCount[h] = 1 /\ hpc[h] = "done")

\* C18 as stated: with threads = 0 a handler that awaits its handle never
\* leaves res.get().
C18_AwaitNeverEnds ==
    \A h \in Handlers : (threads = 0 /\ hpc[h] = "get") => hpc'[h] = "get"
C18_BlocksForever ==
    /\ [](C18_Starved)
    /\ [][C18_Accepts]_vars
    /\ [][C18_AwaitNeverEnds]_vars
    /\ C18_NoStarvationGivenWorkers

\* C18 amended: with threads = 0 the await ends only when the pool is
\* destroyed: the queued item is destroyed unrun, its promise is broken and
\* res.get() throws std::future_error, which the handler answers 400.
C18_AwaitEndsWithPool ==
    \A h \in Handlers :
        (threads = 0 /\ hpc[h] = "get" /\ hpc'[h] # "get") =>
            /\ mainpc = "destroyed"
            /\ execCount[h] = 0
            /\ future[h] # << >> /\ future[h][1].type = "std::future_error"
            /\ hpc'[h] = "done"
            /\ resp'[h] # << >> /\ resp'[h][1].status = 400
C18_BlocksWhilePoolLives ==
    /\ [](C18_Starved)
    /\ [][C18_Accepts]_vars
    /\ [][C18_AwaitEndsWithPool]_vars
    /\ C18_NoStarvationGivenWorkers

\* C18 witness: a pool of no workers was destroyed with both handlers'
\* items queued, and a handler's await ended with the broken promise.
C18_Witness ==
    /\ threads = 0
    /\ mainpc = "destroyed"
    /\ Len(enqOrder) = 2
    /\ \E h \in Handlers : Accepted(h) /\ hpc[h] = "done" /\ resp[h] # << >>

\* C19: an Engine call that throws inside a worker makes the item's shared
\* state ready with the exception, which the handler's res.get() rethrows
\* and the handler answers from its catch clauses; the worker goes back to
\* the top of its loop; no worker has exited while stop is clear, so the
\* live workers number threads; and an item accepted after a failure is
\* still run.
EngineFailed(h) ==
    /\ future[h] # << >>
    /\ ~future[h][1].ok
    /\ future[h][1].type # "std::future_error"
C19_WorkersSurvive ==
    /\ Cardinality(workers) = threads
    /\ ~stop => \A w \in workers : wpc[w] # "exited"
    /\ \A h \in Handlers :
          /\ EngineFailed(h) => execCount[h] = 1 /\ completions[h] = 1
          /\ (EngineFailed(h) /\ hpc[h] = "done") => resp[h] = <<Catch(future[h][1])>>
C19_FailureStep ==
    \A w \in workers :
        (wpc[w] = "running" /\ wpc'[w] # "running") =>
            /\ wpc'[w] = "idle"
            /\ wtask'[w] = << >>
            /\ future'[wtask[w][1].id] \in {<<out>> : out \in RunTask(wtask[w][1])}
            /\ completions'[wtask[w][1].id] = 1
C19_LaterItemsRun ==
    \A g, h \in Handlers :
        (EngineFailed(g) /\ Accepted(h)) ~> (execCount[h] = 1 /\ hpc[h] = "done")
C19_FailureContained ==
    /\ [](C19_WorkersSurvive)
    /\ [][C19_FailureStep]_vars
    /\ C19_LaterItemsRun

\* C19 witness: the only worker ran an item whose Engine call threw, then
\* took and ran the next item, whose handler has its 200 response.
C19_Witness ==
    /\ threads = 1
    /\ deqOrder = <<1, 2>>
    /\ EngineFailed(1)
    /\ resp[2] # << >> /\ resp[2][1].status = 200

\* C20: teardown terminates.  Once the destructor has set stop, every
\* worker reaches Exited and the join completes, under fair scheduling and
\* terminating Engine calls; and after notify_all no worker is blocked on
\* the condition variable.
C20_NobodyLeftWaiting ==
    mainpc \in {"dtor_join", "destroyed"} => \A w \in workers : wpc[w] # "waiting"
C20_TeardownTerminates ==
    /\ [](C20_NobodyLeftWaiting)
    /\ stop ~> AllExited
    /\ stop ~> (mainpc = "destroyed")

\* C20 witness: notify_all has been called with an item still queued; one
\* worker was blocked on the condition variable and has been woken, the
\* other is running an item.
C20_Witness ==
    /\ mainpc = "dtor_join"
    /\ tasks # << >>
    /\ \E w \in workers : wpc[w] = "woken"
    /\ \E w \in workers : wpc[w] = "running"

====
